---- MODULE Spec2Model ----
(***************************************************************************)
(* Model of the text formatter of src/src/components/FormattedContent.tsx  *)
(* (cleanContent, the per-line loop of FormattedContent, flushList and     *)
(* formatInlineText).                                                      *)
(*                                                                         *)
(* A JavaScript string is a sequence of one-character strings.  The        *)
(* regular expressions of the source are translated operator by operator, *)
(* with the character classes of ECMAScript: \s matches the space, the tab *)
(* AND the line terminators; "." matches everything but line terminators.  *)
(* The bullet character U+2022 is the atom BULLET.                         *)
(***************************************************************************)
EXTENDS Integers, Sequences, FiniteSets, TLC

\* ------------------------------------------------------------ characters

NL == "\n"
BULLET == "BULLET"

\* \s of ECMAScript (the members that can occur in the inputs of this model)
WS == {" ", "\t", "\n", "\r"}
\* the line terminators "." refuses and the m-flag "^" looks behind for
LineTerminators == {"\n", "\r"}
\* \d
Digits == {"0", "1", "2", "3", "4", "5", "6", "7", "8", "9"}

IsWs(c) == c \in WS
IsDot(c) == c \notin LineTerminators
IsStar(c) == c = "*"
IsDigit(c) == c \in Digits

\* ------------------------------------------------------------ scanning

\* first index >= i of s that is not whitespace (Len(s)+1 if none): \s* greedy
RECURSIVE WsEnd(_, _)
WsEnd(s, i) == IF i <= Len(s) /\ IsWs(s[i]) THEN WsEnd(s, i + 1) ELSE i

\* first index >= i of s that is not '*': \** greedy
RECURSIVE StarEnd(_, _)
StarEnd(s, i) == IF i <= Len(s) /\ IsStar(s[i]) THEN StarEnd(s, i + 1) ELSE i

\* first index >= i of s that is not a digit: \d* greedy
RECURSIVE DigitEnd(_, _)
DigitEnd(s, i) == IF i <= Len(s) /\ IsDigit(s[i]) THEN DigitEnd(s, i + 1) ELSE i

\* first index >= i of s that is a '*' (Len(s)+1 if none): [^*]* greedy
RECURSIVE NonStarEnd(_, _)
NonStarEnd(s, i) == IF i <= Len(s) /\ ~IsStar(s[i]) THEN NonStarEnd(s, i + 1) ELSE i

\* last index <= i of s that is not whitespace (0 if none)
RECURSIVE WsStartBack(_, _)
WsStartBack(s, i) == IF i >= 1 /\ IsWs(s[i]) THEN WsStartBack(s, i - 1) ELSE i

\* last index <= i of s that is not '*' (0 if none)
RECURSIVE StarStartBack(_, _)
StarStartBack(s, i) == IF i >= 1 /\ IsStar(s[i]) THEN StarStartBack(s, i - 1) ELSE i

Slice(s, from, to) == IF from > to THEN <<>> ELSE SubSeq(s, from, to)

AllDot(s, from) == \A k \in from..Len(s) : IsDot(s[k])

\* "^" under the m flag: at the start of the text or right after a line terminator
AtLineStart(s, i) == i = 1 \/ s[i - 1] \in LineTerminators

\* ------------------------------------------------------------ cleanContent

\* .replace(/^\*\s+/gm, BULLET + ' ')
RECURSIVE LeadingStarToBullet(_, _)
LeadingStarToBullet(s, i) ==
  IF i > Len(s) THEN <<>>
  ELSE IF IsStar(s[i]) /\ AtLineStart(s, i) /\ i + 1 <= Len(s) /\ IsWs(s[i + 1])
       THEN <<BULLET, " ">> \o LeadingStarToBullet(s, WsEnd(s, i + 1))
       ELSE <<s[i]>> \o LeadingStarToBullet(s, i + 1)

\* .replace(/\*{3,}/g, '')
RECURSIVE RemoveStarRuns(_, _)
RemoveStarRuns(s, i) ==
  IF i > Len(s) THEN <<>>
  ELSE IF IsStar(s[i])
       THEN LET j == StarEnd(s, i)
            IN  (IF j - i >= 3 THEN <<>> ELSE Slice(s, i, j - 1)) \o RemoveStarRuns(s, j)
       ELSE <<s[i]>> \o RemoveStarRuns(s, i + 1)

\* end (exclusive) of a match of \*\s*\*\s*\* starting at i, or 0
SeparatorEnd(s, i) ==
  IF ~(i <= Len(s) /\ IsStar(s[i])) THEN 0
  ELSE LET j == WsEnd(s, i + 1)
       IN  IF ~(j <= Len(s) /\ IsStar(s[j])) THEN 0
           ELSE LET k == WsEnd(s, j + 1)
                IN  IF k <= Len(s) /\ IsStar(s[k]) THEN k + 1 ELSE 0

\* .replace(/\*\s*\*\s*\*/g, '')
RECURSIVE RemoveSeparators(_, _)
RemoveSeparators(s, i) ==
  IF i > Len(s) THEN <<>>
  ELSE LET e == SeparatorEnd(s, i)
       IN  IF e > 0 THEN RemoveSeparators(s, e)
           ELSE <<s[i]>> \o RemoveSeparators(s, i + 1)

\* .replace(/\s{3,}/g, '  ')
RECURSIVE CollapseSpaces(_, _)
CollapseSpaces(s, i) ==
  IF i > Len(s) THEN <<>>
  ELSE IF IsWs(s[i])
       THEN LET j == WsEnd(s, i)
            IN  (IF j - i >= 3 THEN <<" ", " ">> ELSE Slice(s, i, j - 1))
                \o CollapseSpaces(s, j)
       ELSE <<s[i]>> \o CollapseSpaces(s, i + 1)

\* .replace(/\*+:/g, ':')
RECURSIVE StarsBeforeColon(_, _)
StarsBeforeColon(s, i) ==
  IF i > Len(s) THEN <<>>
  ELSE IF IsStar(s[i])
       THEN LET j == StarEnd(s, i)
            IN  IF j <= Len(s) /\ s[j] = ":"
                THEN <<":">> \o StarsBeforeColon(s, j + 1)
                ELSE Slice(s, i, j - 1) \o StarsBeforeColon(s, j)
       ELSE <<s[i]>> \o StarsBeforeColon(s, i + 1)

\* .replace(/:\*+/g, ':')
RECURSIVE StarsAfterColon(_, _)
StarsAfterColon(s, i) ==
  IF i > Len(s) THEN <<>>
  ELSE IF s[i] = ":" /\ i + 1 <= Len(s) /\ IsStar(s[i + 1])
       THEN <<":">> \o StarsAfterColon(s, StarEnd(s, i + 1))
       ELSE <<s[i]>> \o StarsAfterColon(s, i + 1)

cleanContent(text) ==
  LET s1 == LeadingStarToBullet(text, 1)
      s2 == RemoveStarRuns(s1, 1)
      s3 == RemoveSeparators(s2, 1)
      s4 == CollapseSpaces(s3, 1)
      s5 == StarsBeforeColon(s4, 1)
  IN  StarsAfterColon(s5, 1)

\* ------------------------------------------------------------ split, trim

\* String.prototype.split('\n')
RECURSIVE SplitFrom(_, _, _)
SplitFrom(s, i, start) ==
  IF i > Len(s) THEN <<Slice(s, start, Len(s))>>
  ELSE IF s[i] = NL
       THEN <<Slice(s, start, i - 1)>> \o SplitFrom(s, i + 1, i + 1)
       ELSE SplitFrom(s, i + 1, start)

Split(s) == SplitFrom(s, 1, 1)

\* a trim that removes one whitespace character at each end, not the whole run
TrimOne(s) ==
  Slice(s, IF Len(s) >= 1 /\ IsWs(s[1]) THEN 2 ELSE 1,
           IF Len(s) >= 1 /\ IsWs(s[Len(s)]) THEN Len(s) - 1 ELSE Len(s))

\* a trim that trims nothing
TrimNothing(s) == s

\* String.prototype.trim()
Trim(s) == Slice(s, WsEnd(s, 1), WsStartBack(s, Len(s)))

\* ------------------------------------------------------------ line patterns

\* index where the capture (.+) of  \s+(.+)$  starts when \s+ must start at p,
\* or 0 when the pattern does not match there.  \s+ is greedy and gives back one
\* whitespace character when nothing is left for (.+).
RestAfterSpaces(t, p) ==
  IF ~(p <= Len(t) /\ IsWs(t[p])) THEN 0
  ELSE LET k == WsEnd(t, p)
       IN  IF k <= Len(t) THEN (IF AllDot(t, k) THEN k ELSE 0)
           ELSE IF k - 1 > p /\ IsDot(t[k - 1]) THEN k - 1 ELSE 0

\* the level-2 pattern without the whitespace after the two hashes: /^##(.+)$/
h2MatchNoSpace(t) ==
  IF Len(t) >= 3 /\ t[1] = "#" /\ t[2] = "#" THEN 3 ELSE 0

\* trimmedLine.match(/^##\s+(.+)$/): the capture start, or 0
h2Match(t) ==
  IF Len(t) >= 2 /\ t[1] = "#" /\ t[2] = "#" THEN RestAfterSpaces(t, 3) ELSE 0

\* trimmedLine.match(/^###\s+(.+)$/): the capture start, or 0
h3Match(t) ==
  IF Len(t) >= 3 /\ t[1] = "#" /\ t[2] = "#" /\ t[3] = "#"
  THEN RestAfterSpaces(t, 4) ELSE 0

\* the bold header pattern without its end anchor: anything may follow the run
boldHeaderMatchNoEnd(t) ==
  IF ~(Len(t) >= 2 /\ IsStar(t[1]) /\ IsStar(t[2])) THEN 0
  ELSE LET j == NonStarEnd(t, 3)
       IN  IF ~(j > 3 /\ j + 1 <= Len(t) /\ IsStar(t[j]) /\ IsStar(t[j + 1])) THEN 0
           ELSE j

\* trimmedLine.match(/^\*\*([^*]+)\*\*:?\s*$/): the index after the capture
\* (the capture is t[3 .. j-1]), or 0
boldHeaderMatch(t) ==
  IF ~(Len(t) >= 2 /\ IsStar(t[1]) /\ IsStar(t[2])) THEN 0
  ELSE LET j == NonStarEnd(t, 3)
       IN  IF ~(j > 3 /\ j + 1 <= Len(t) /\ IsStar(t[j]) /\ IsStar(t[j + 1])) THEN 0
           ELSE LET r == IF j + 2 <= Len(t) /\ t[j + 2] = ":" THEN j + 3 ELSE j + 2
                IN  IF WsEnd(t, r) > Len(t) THEN j ELSE 0

\* trimmedLine.match(/^[-BULLET]\s+(.+)$/): the capture start, or 0
bulletMatch(t) ==
  IF Len(t) >= 1 /\ t[1] \in {"-", BULLET} THEN RestAfterSpaces(t, 2) ELSE 0

\* trimmedLine.match(/^\*\s+(.+)$/): the capture start, or 0
asteriskBulletMatch(t) ==
  IF Len(t) >= 1 /\ IsStar(t[1]) THEN RestAfterSpaces(t, 2) ELSE 0

\* bulletMatch || asteriskBulletMatch
matchedBullet(t) == IF bulletMatch(t) > 0 THEN bulletMatch(t) ELSE asteriskBulletMatch(t)

\* trimmedLine.match(/^\d+[.)]\s+(.+)$/): the capture start, or 0
numberedMatch(t) ==
  LET d == DigitEnd(t, 1)
  IN  IF d > 1 /\ d <= Len(t) /\ t[d] \in {".", ")"} THEN RestAfterSpaces(t, d + 1) ELSE 0

\* .replace(/^\*+\s*/, '')
StripLeadingStars(s) ==
  IF Len(s) >= 1 /\ IsStar(s[1]) THEN Slice(s, WsEnd(s, StarEnd(s, 1)), Len(s)) ELSE s

\* .replace(/\*+$/, '')
StripTrailingStars(s) == Slice(s, 1, StarStartBack(s, Len(s)))

\* .replace(/\s*\*+$/, '')
StripTrailingSpaceStars(s) ==
  IF Len(s) >= 1 /\ IsStar(s[Len(s)])
  THEN Slice(s, 1, WsStartBack(s, StarStartBack(s, Len(s))))
  ELSE s

\* matchedBullet[1].replace(/^\*+\s*/, '').replace(/\*+$/, '')
bulletText(t) == StripTrailingStars(StripLeadingStars(Slice(t, matchedBullet(t), Len(t))))

\* trimmedLine.replace(/^\*+\s*/, '').replace(/\s*\*+$/, '')
cleanedLine(t) == StripTrailingSpaceStars(StripLeadingStars(t))

\* ------------------------------------------------------------ formatInlineText

PlainText(v) == [em |-> FALSE, value |-> v]
Emphasis(v) == [em |-> TRUE, value |-> v]

\* .replace(/\*\*\*+/g, '**')
RECURSIVE NormalizeStars(_, _)
NormalizeStars(s, i) ==
  IF i > Len(s) THEN <<>>
  ELSE IF IsStar(s[i])
       THEN LET j == StarEnd(s, i)
            IN  (IF j - i >= 3 THEN <<"*", "*">> ELSE Slice(s, i, j - 1))
                \o NormalizeStars(s, j)
       ELSE <<s[i]>> \o NormalizeStars(s, i + 1)

\* .replace(/(?<!\*)\*(?!\*)/g, ''): the look-arounds read the string being replaced
RemoveLoneStars(s) ==
  LET lone(i) == /\ IsStar(s[i])
                 /\ (i = 1 \/ ~IsStar(s[i - 1]))
                 /\ (i = Len(s) \/ ~IsStar(s[i + 1]))
  IN  SelectSeq([i \in 1..Len(s) |-> IF lone(i) THEN "" ELSE s[i]], LAMBDA c : c # "")

\* the closing "**" of a greedy /\*\*(.+)\*\*/: the last "**" at or after j, or 0
ClosingAtGreedy(s, i, j) ==
  LET c == {k \in j..(Len(s) - 1) : IsStar(s[k]) /\ IsStar(s[k + 1])}
  IN  IF c = {} THEN 0 ELSE CHOOSE k \in c : \A m \in c : m <= k

\* index of the closing "**" of /\*\*(.+?)\*\*/ for an opening "**" at i: the least
\* j >= i+3 with "**" at j and no line terminator in between, or 0
RECURSIVE ClosingAt(_, _, _)
ClosingAt(s, i, j) ==
  IF j + 1 > Len(s) THEN 0
  ELSE IF ~IsDot(s[j - 1]) THEN 0
  ELSE IF IsStar(s[j]) /\ IsStar(s[j + 1]) THEN j
  ELSE ClosingAt(s, i, j + 1)

\* boldRegex.exec from lastIndex: <<index of the match, index of its closing "**">>,
\* or <<0, 0>> for null
RECURSIVE boldExec(_, _)
boldExec(s, from) ==
  IF from + 4 > Len(s) THEN <<0, 0>>
  ELSE IF IsStar(s[from]) /\ IsStar(s[from + 1]) /\ ClosingAt(s, from, from + 3) > 0
       THEN <<from, ClosingAt(s, from, from + 3)>>
       ELSE boldExec(s, from + 1)

\* the while loop of formatInlineText and the "remaining text" push; lastIndex is
\* the 1-based index of the first character not yet consumed
RECURSIVE InlineParts(_, _)
InlineParts(s, lastIndex) ==
  LET m == boldExec(s, lastIndex)
  IN  IF m[1] = 0
      THEN (IF lastIndex <= Len(s) THEN <<PlainText(Slice(s, lastIndex, Len(s)))>> ELSE <<>>)
      ELSE (IF m[1] > lastIndex THEN <<PlainText(Slice(s, lastIndex, m[1] - 1))>> ELSE <<>>)
           \o <<Emphasis(Slice(s, m[1] + 2, m[2] - 1))>>
           \o InlineParts(s, m[2] + 2)

formatInlineText(text) ==
  LET cleanedText == RemoveLoneStars(NormalizeStars(text, 1))
      parts == InlineParts(cleanedText, 1)
  IN  IF Len(parts) > 0 THEN parts ELSE <<PlainText(cleanedText)>>

\* ------------------------------------------------------------ output nodes

Heading(level, spans) == [kind |-> "heading", level |-> level, spans |-> spans, items |-> <<>>]
Paragraph(spans) == [kind |-> "paragraph", level |-> 0, spans |-> spans, items |-> <<>>]
\* <ol> for listType 'numbered', <ul> otherwise; every item through formatInlineText
ListNode(type, items) ==
  [kind |-> IF type = "numbered" THEN "numberedList" ELSE "bulletList",
   level |-> 0, spans |-> <<>>,
   items |-> [i \in 1..Len(items) |-> formatInlineText(items[i])]]

\* a flushList that puts the list in front of the nodes already emitted
flushListFirst(els, items, type) ==
  IF Len(items) > 0 THEN <<ListNode(type, items)>> \o els ELSE els

\* flushList: the elements after the call
flushList(els, items, type) ==
  IF Len(items) > 0 THEN Append(els, ListNode(type, items)) ELSE els

\* a flushList that never resets isInList
flushInListKeepsOpen(items, inList) == inList

\* flushList: isInList after the call (reset only when something was flushed)
flushInList(items, inList) == IF Len(items) > 0 THEN FALSE ELSE inList

\* ------------------------------------------------------------ inputs

\* longest input of the exhaustive part, and most lines of the line-built part
MaxLen == 4
MaxLines == 3

Alphabet == {"*", " ", NL, ":", "-", "a"}

ShortInputs == UNION {[1..n -> Alphabet] : n \in 0..MaxLen}

SampleLines ==
  { <<>>, <<" ">>,
    <<"-", " ", "a">>, <<"-", " ", "b", " ", "c">>, <<"*", " ", "c">>,
    <<"1", ".", " ", "a">>, <<"2", ")", " ", "b">>,
    <<"#", "#", " ", "a">>, <<"#", "#", "#", " ", "b">>,
    <<"*", "*", "a", "*", "*">>,
    <<"a">>, <<"b", " ", "*", "*", "c", "*", "*">> }

RECURSIVE Join(_)
Join(ls) ==
  IF Len(ls) = 0 THEN <<>>
  ELSE IF Len(ls) = 1 THEN ls[1]
  ELSE ls[1] \o <<NL>> \o Join(Tail(ls))

LineInputs == {Join(ls) : ls \in UNION {[1..n -> SampleLines] : n \in 1..MaxLines}}

\* "**Warning:** Use less water"
WarningLine ==
  <<"*", "*", "W", "a", "r", "n", "i", "n", "g", ":", "*", "*", " ",
    "U", "s", "e", " ", "l", "e", "s", "s", " ", "w", "a", "t", "e", "r">>

\* "Plant health is ***excellent***"
ExcellentLine ==
  <<"P", "l", "a", "n", "t", " ", "h", "e", "a", "l", "t", "h", " ", "i", "s", " ",
    "*", "*", "*", "e", "x", "c", "e", "l", "l", "e", "n", "t", "*", "*", "*">>

\* "- a  \n- b" and "1. a  \n2. b": two list lines, the first ending in two spaces
\* (the hard line break of markdown)
HardBreakBullets == <<"-", " ", "a", " ", " ", NL, "-", " ", "b">>
HardBreakNumbers == <<"1", ".", " ", "a", " ", " ", NL, "2", ".", " ", "b">>

\* "**a**:" and "**a:**": a bold run with the colon after it and inside it
BoldColonOutside == <<"*", "*", "a", "*", "*", ":">>
BoldColonInside == <<"*", "*", "a", ":", "*", "*">>

\* "**a**." and "**a** ***": a bold run followed by punctuation, and by a
\* separator of decorative markers
BoldThenDot == <<"*", "*", "a", "*", "*", ".">>
BoldThenSeparator == <<"*", "*", "a", "*", "*", " ", "*", "*", "*">>
\* "**a** b" and "- a\n**a** b": a bold run followed by text, alone and after a list line
BoldThenText == <<"*", "*", "a", "*", "*", " ", "b">>
ListThenBoldText == <<"-", " ", "a", NL, "*", "*", "a", "*", "*", " ", "b">>

\* lines that start with '#': one, two, three and four hashes, and no space
\* after the hashes; and a list line
HashLines ==
  { <<"#", " ", "a">>, <<"#", "#", " ", "a">>, <<"#", "#", "#", " ", "b">>,
    <<"#", "#", "#", "#", " ", "a">>, <<"#", "#", "a">>, <<"#", "#", "#", "a">>,
    <<"-", " ", "a">> }

HashInputs == HashLines \cup {Join(ls) : ls \in [1..2 -> HashLines]}

\* longest text of the exhaustive inputs of formatInlineText
MaxInline == 8

\* every text of '*' and 'a' up to MaxInline, and texts with two runs, with text
\* around the runs, and with an opening "**" that is never closed
InlineTexts ==
  UNION {[1..n -> {"*", "a"}] : n \in 1..MaxInline}
  \cup { <<"a", " ", "*", "*", "b", "*", "*", " ", "c", " ", "*", "*", "d", "*", "*", " ", "e">>,
         <<"*", "*", "a", "*", "*", "b", "*", "*", "c", "*", "*">>,
         <<"*", "*", "a", "*", "*", " ", "b", " ", "*", "*", "c">> }

\* the texts as the content of a level-2 heading, which goes to formatInlineText
\* as it is
InlineInputs == {<<"#", "#", " ">> \o x : x \in InlineTexts}

ExampleInputs ==
  {WarningLine, ExcellentLine, HardBreakBullets, HardBreakNumbers, BoldColonOutside, BoldColonInside,
   BoldThenDot, BoldThenSeparator, BoldThenText, ListThenBoldText}

Inputs == ShortInputs \cup LineInputs \cup ExampleInputs \cup HashInputs \cup InlineInputs

\* ------------------------------------------------------------ state

VARIABLES
  content,     \* the content prop of the invocation
  pc,          \* "start", "loop" (lines.forEach and the final flush), "done"
  lines,       \* cleanedContent.split('\n')
  index,       \* the line forEach is at (1-based)
  elements,    \* the output nodes
  listItems,   \* the list buffer (raw item texts)
  isInList,
  listType,    \* "bullet" | "numbered"
  pass,        \* 1: formatting the input; 2: formatting the reconstructed text
  firstPass,   \* the input and the elements of pass 1, kept for the round trip
  other        \* the props and locals of a second invocation that is not running

\* the state of FormattedContent
fmtVars == <<content, pc, lines, index, elements, listItems, isInList, listType, pass, firstPass, other>>

\* the useState values of MarketPrices, the request of fetchMarketPrices and the
\* geolocation lookup of getCurrentLocation
VARIABLES
  currentStep,         \* 'select-crops' | 'select-date' | 'select-location' | 'results'
  selectedCrops,
  customCrop,
  endDate,             \* "undefined" or "date"
  location,
  useCurrentLocation,
  currentCoords,       \* "null" or "coords"
  marketData,          \* "null" or "data"
  selectedCrop,        \* "null" or the price of a crop
  isLoading,
  fetchPc,             \* "idle", or "waiting" at the await of supabase.functions.invoke
  sentBody,            \* the body of the last request sent
  geoPc                \* "idle", "locating" (getCurrentPosition), "naming" (getLocationName)

wizardVars ==
  <<currentStep, selectedCrops, customCrop, endDate, location, useCurrentLocation, currentCoords,
    marketData, selectedCrop, isLoading, fetchPc, sentBody, geoPc>>

\* the useState values of PestDetector and SoilAnalyzer and their requests
VARIABLES
  image,               \* "null" or the uploaded image
  isAnalyzingPest,     \* isAnalyzing of PestDetector
  detection,           \* "null" or the detection of the response
  pestPc,              \* "idle", or "waiting" at the await of handleAnalyze
  isAnalyzingSoil,     \* isAnalyzing of SoilAnalyzer
  analysis,            \* "null" or the analysis of the response
  soilPc               \* "idle", or "waiting" at the await of handleAnalyze

analyzeVars == <<image, isAnalyzingPest, detection, pestPc, isAnalyzingSoil, analysis, soilPc>>

\* the useState values of Chatbot and its requests
VARIABLES
  messages,            \* records with role and content
  inputValue,
  isLoadingChat,       \* isLoading of Chatbot
  chatPending,         \* the number of handleSend calls at their await
  chatSends,           \* the number of requests sent so far
  sendsOverlapped      \* history: a request was sent while another was awaited

chatVars == <<messages, inputValue, isLoadingChat, chatPending, chatSends, sendsOverlapped>>

\* one invocation of an edge function
VARIABLES
  fnName,              \* the function invoked
  req,                 \* the request: method, whether its body parses, whether it holds an image
  LOVABLE_API_KEY,     \* whether the environment holds the key
  upstream,            \* what the gateway does when it is called
  edgePc,              \* "received" or "responded"
  httpResponse         \* the Response returned

edgeVars == <<fnName, req, LOVABLE_API_KEY, upstream, edgePc, httpResponse>>

\* the state of the components other than FormattedContent
appVars == <<wizardVars, analyzeVars, chatVars, edgeVars>>

vars == <<fmtVars, appVars>>

\* what a step of MarketPrices leaves alone
notWizardVars == <<fmtVars, analyzeVars, chatVars, edgeVars>>

\* what a step of PestDetector or SoilAnalyzer leaves alone
notAnalyzeVars == <<fmtVars, wizardVars, chatVars, edgeVars>>

\* what a step of Chatbot leaves alone
notChatVars == <<fmtVars, wizardVars, analyzeVars, edgeVars>>

\* what an invocation of an edge function leaves alone
notEdgeVars == <<fmtVars, wizardVars, analyzeVars, chatVars>>

\* the props and locals of an invocation before its first statement
Frame(c) ==
  [content |-> c, pc |-> "start", lines |-> <<>>, index |-> 1, elements |-> <<>>,
   listItems |-> <<>>, isInList |-> FALSE, listType |-> "bullet"]

\* the values MarketPrices is mounted with
WizardStart ==
  /\ currentStep = "select-crops"
  /\ selectedCrops = <<>>
  /\ customCrop = <<>>
  /\ endDate = "undefined"
  /\ location = ""
  /\ useCurrentLocation = FALSE
  /\ currentCoords = "null"
  /\ marketData = "null"
  /\ selectedCrop = "null"
  /\ isLoading = FALSE
  /\ fetchPc = "idle"
  /\ sentBody = [crops |-> <<>>, location |-> "", coordinates |-> "null", sent |-> FALSE]
  /\ geoPc = "idle"

\* the values PestDetector and SoilAnalyzer are mounted with
AnalyzeStart ==
  /\ image = "null"
  /\ isAnalyzingPest = FALSE
  /\ detection = "null"
  /\ pestPc = "idle"
  /\ isAnalyzingSoil = FALSE
  /\ analysis = "null"
  /\ soilPc = "idle"

\* the greeting, the model's reply, and 'Sorry, I encountered an error. Please try
\* again.', each shortened to a few characters
Greeting == <<"h", "e", "l", "l", "o">>
ModelReply == <<"r", "e", "p", "l", "y">>
Apology == <<"S", "o", "r", "r", "y">>

Message(role, text) == [role |-> role, content |-> text]

\* Chatbot after it is mounted and its first effect has set the greeting
ChatStart ==
  /\ messages = <<Message("assistant", Greeting)>>
  /\ inputValue = <<>>
  /\ isLoadingChat = FALSE
  /\ chatPending = 0
  /\ chatSends = 0
  /\ sendsOverlapped = FALSE

\* new Response(body, { status, headers }); status defaults to 200
Response(status, headers, body) == [status |-> status, headers |-> headers, body |-> body]

\* what the gateway does: fetch throws or answers with a status; the body of
\* the answer can be read as text, or not; it parses as JSON, or not; reply is
\* data.choices?.[0]?.message?.content || ""
Upstream(thrown, status, textOk, jsonOk, reply) ==
  [thrown |-> thrown, status |-> status, textOk |-> textOk, jsonOk |-> jsonOk, reply |-> reply]

\* an edge function that received a chat request and has not answered it
EdgeIdle ==
  /\ fnName = "chat"
  /\ req = [method |-> "POST", jsonOk |-> TRUE, hasImage |-> FALSE]
  /\ LOVABLE_API_KEY = TRUE
  /\ upstream = Upstream(FALSE, 200, TRUE, TRUE, <<>>)
  /\ edgePc = "received"
  /\ httpResponse = Response(0, {}, [none |-> TRUE])

\* every component other than FormattedContent as it is mounted
AppStart == WizardStart /\ AnalyzeStart /\ ChatStart /\ EdgeIdle

\* FormattedContent not rendering anything
FormatterIdle ==
  /\ content = <<>>
  /\ pc = "start"
  /\ lines = <<>>
  /\ index = 1
  /\ elements = <<>>
  /\ listItems = <<>>
  /\ isInList = FALSE
  /\ listType = "bullet"
  /\ pass = 1
  /\ firstPass = [content |-> <<>>, elements |-> <<>>]
  /\ other = Frame(<<>>)

Init ==
  /\ AppStart
  /\ content \in Inputs
  /\ pc = "start"
  /\ lines = <<>>
  /\ index = 1
  /\ elements = <<>>
  /\ listItems = <<>>
  /\ isInList = FALSE
  /\ listType = "bullet"
  /\ pass = 1
  /\ firstPass = [content |-> <<>>, elements |-> <<>>]
  /\ other = Frame(<<>>)

\* if (!content) return null
ReturnNull ==
  /\ pc = "start"
  /\ content = <<>>
  /\ pc' = "done"
  /\ UNCHANGED <<content, lines, index, elements, listItems, isInList, listType, pass, firstPass, other, appVars>>

\* cleanContent, split, and the initial values of the locals
CleanAndSplit ==
  /\ pc = "start"
  /\ content # <<>>
  /\ lines' = Split(cleanContent(content))
  /\ index' = 1
  /\ elements' = <<>>
  /\ listItems' = <<>>
  /\ isInList' = FALSE
  /\ listType' = "bullet"
  /\ pc' = "loop"
  /\ UNCHANGED <<content, pass, firstPass, other, appVars>>

InLoop == pc = "loop" /\ index <= Len(lines)
trimmedLine == Trim(lines[index])

\* forEach never moving on to the next line
NextIndexStuck(i) == i

\* the index forEach visits after this line
NextIndex(i) == i + 1

\* the header and paragraph cases without their flushList() call
PushWithoutFlush(newNodes) ==
  /\ elements' = elements \o newNodes
  /\ index' = NextIndex(index)
  /\ UNCHANGED <<content, pc, lines, listItems, isInList, listType, pass, firstPass, other, appVars>>

\* flushList() followed by return or falling out of the callback
FlushAndPush(newNodes) ==
  /\ elements' = flushList(elements, listItems, listType) \o newNodes
  /\ listItems' = <<>>
  /\ isInList' = flushInList(listItems, isInList)
  /\ index' = NextIndex(index)
  /\ UNCHANGED <<content, pc, lines, listType, pass, firstPass, other, appVars>>

\* the conditions of the if-chain of the forEach callback, in its order
NoHeader(t) == t # <<>> /\ h2Match(t) = 0 /\ h3Match(t) = 0 /\ boldHeaderMatch(t) = 0
IsEmptyLine == InLoop /\ trimmedLine = <<>>
IsH2Line == InLoop /\ trimmedLine # <<>> /\ h2Match(trimmedLine) > 0
IsH3Line == InLoop /\ trimmedLine # <<>> /\ h2Match(trimmedLine) = 0 /\ h3Match(trimmedLine) > 0
IsBoldHeaderLine ==
  /\ InLoop
  /\ trimmedLine # <<>>
  /\ h2Match(trimmedLine) = 0
  /\ h3Match(trimmedLine) = 0
  /\ boldHeaderMatch(trimmedLine) > 0
IsBulletLine == InLoop /\ NoHeader(trimmedLine) /\ matchedBullet(trimmedLine) > 0
IsNumberedLine ==
  /\ InLoop
  /\ NoHeader(trimmedLine)
  /\ matchedBullet(trimmedLine) = 0
  /\ numberedMatch(trimmedLine) > 0
IsParagraphLine ==
  /\ InLoop
  /\ NoHeader(trimmedLine)
  /\ matchedBullet(trimmedLine) = 0
  /\ numberedMatch(trimmedLine) = 0

\* if (!trimmedLine) { flushList(); return; }
EmptyLine ==
  /\ IsEmptyLine
  /\ FlushAndPush(<<>>)

\* if (h2Match) { flushList(); elements.push(<h3>...) }
H2Line ==
  /\ IsH2Line
  /\ FlushAndPush(<<Heading(2,
        formatInlineText(Slice(trimmedLine, h2Match(trimmedLine), Len(trimmedLine))))>>)

\* if (h3Match) { flushList(); elements.push(<h4>...) }
H3Line ==
  /\ IsH3Line
  /\ FlushAndPush(<<Heading(3,
        formatInlineText(Slice(trimmedLine, h3Match(trimmedLine), Len(trimmedLine))))>>)

\* boldHeaderMatch[1].replace(/\*+/g, ''): the capture holds no '*'
boldHeaderText(t) == SelectSeq(Slice(t, 3, boldHeaderMatch(t) - 1), LAMBDA c : ~IsStar(c))

\* if (boldHeaderMatch) { flushList(); elements.push(<h4>...) }
BoldHeaderLine ==
  /\ IsBoldHeaderLine
  /\ FlushAndPush(<<Heading(3, <<PlainText(boldHeaderText(trimmedLine))>>)>>)

\* if (matchedBullet) { if (!isInList) {...} listItems.push(...) }
BulletLine ==
  /\ IsBulletLine
  /\ elements' = IF ~isInList THEN flushList(elements, listItems, listType) ELSE elements
  /\ listItems' = Append(IF ~isInList THEN <<>> ELSE listItems, bulletText(trimmedLine))
  /\ isInList' = TRUE
  /\ listType' = IF ~isInList THEN "bullet" ELSE listType
  /\ index' = NextIndex(index)
  /\ UNCHANGED <<content, pc, lines, pass, firstPass, other, appVars>>

\* if (numberedMatch) { if (!isInList) {...} listItems.push(...) }
NumberedLine ==
  /\ IsNumberedLine
  /\ elements' = IF ~isInList THEN flushList(elements, listItems, listType) ELSE elements
  /\ listItems' = Append(IF ~isInList THEN <<>> ELSE listItems,
                         Slice(trimmedLine, numberedMatch(trimmedLine), Len(trimmedLine)))
  /\ isInList' = TRUE
  /\ listType' = IF ~isInList THEN "numbered" ELSE listType
  /\ index' = NextIndex(index)
  /\ UNCHANGED <<content, pc, lines, pass, firstPass, other, appVars>>

\* flushList(); if (cleanedLine) elements.push(<p>...)
ParagraphLine ==
  /\ IsParagraphLine
  /\ FlushAndPush(IF cleanedLine(trimmedLine) # <<>>
                  THEN <<Paragraph(formatInlineText(cleanedLine(trimmedLine)))>>
                  ELSE <<>>)

\* after forEach: flushList(); return <div>{elements}</div>
FinalFlush ==
  /\ pc = "loop"
  /\ index > Len(lines)
  /\ elements' = flushList(elements, listItems, listType)
  /\ listItems' = <<>>
  /\ isInList' = flushInList(listItems, isInList)
  /\ pc' = "done"
  /\ UNCHANGED <<content, lines, index, listType, pass, firstPass, other, appVars>>

\* the text of a node sequence: the span values of every heading, paragraph and
\* list item concatenated, one line per heading, paragraph and item
NodeText(spans) ==
  LET RECURSIVE cat(_)
      cat(i) == IF i > Len(spans) THEN <<>> ELSE spans[i].value \o cat(i + 1)
  IN  cat(1)

NodeLines(node) ==
  IF node.kind \in {"bulletList", "numberedList"}
  THEN [i \in 1..Len(node.items) |-> NodeText(node.items[i])]
  ELSE <<NodeText(node.spans)>>

RECURSIVE OutputLines(_)
OutputLines(els) ==
  IF Len(els) = 0 THEN <<>> ELSE NodeLines(els[1]) \o OutputLines(Tail(els))

Reconstruct(els) == Join(OutputLines(els))

\* the round trip: the plain text of the output is handed to a new invocation
Reformat ==
  /\ pc = "done"
  /\ pass = 1
  /\ firstPass' = [content |-> content, elements |-> elements]
  /\ content' = Reconstruct(elements)
  /\ pass' = 2
  /\ pc' = "start"
  /\ lines' = <<>>
  /\ index' = 1
  /\ elements' = <<>>
  /\ listItems' = <<>>
  /\ isInList' = FALSE
  /\ listType' = "bullet"
  /\ UNCHANGED <<other, appVars>>

Next ==
  \/ ReturnNull
  \/ CleanAndSplit
  \/ EmptyLine
  \/ H2Line
  \/ H3Line
  \/ BoldHeaderLine
  \/ BulletLine
  \/ NumberedLine
  \/ ParagraphLine
  \/ FinalFlush
  \/ Reformat

Spec == Init /\ [][Next]_vars

\* ---- two invocations whose steps interleave

\* a switch that leaves the list buffer and the list-open flag where they are, as
\* if both invocations shared them
SwitchSharedBuffer ==
  /\ other' = [content |-> content, pc |-> pc, lines |-> lines, index |-> index,
               elements |-> elements, listItems |-> listItems, isInList |-> isInList,
               listType |-> listType]
  /\ content' = other.content
  /\ pc' = other.pc
  /\ lines' = other.lines
  /\ index' = other.index
  /\ elements' = other.elements
  /\ listType' = other.listType
  /\ UNCHANGED <<listItems, isInList, pass, firstPass, appVars>>

\* the running invocation is suspended and the other one resumed: content is a
\* parameter and lines, elements, listItems, isInList and listType are const/let
\* locals of the function body, so each invocation has its own
Switch ==
  /\ other' = [content |-> content, pc |-> pc, lines |-> lines, index |-> index,
               elements |-> elements, listItems |-> listItems, isInList |-> isInList,
               listType |-> listType]
  /\ content' = other.content
  /\ pc' = other.pc
  /\ lines' = other.lines
  /\ index' = other.index
  /\ elements' = other.elements
  /\ listItems' = other.listItems
  /\ isInList' = other.isInList
  /\ listType' = other.listType
  /\ UNCHANGED <<pass, firstPass, appVars>>

\* one line of each kind of the if-chain
TwoLines ==
  { <<>>, <<"-", " ", "a">>, <<"1", ".", " ", "a">>, <<"#", "#", " ", "a">>,
    <<"#", "#", "#", " ", "b">>, <<"*", "*", "a", "*", "*">>, <<"a">> }

TwoInputs == {<<>>} \cup {Join(ls) : ls \in [1..2 -> TwoLines]}

TwoInit ==
  /\ AppStart
  /\ content \in TwoInputs
  /\ pc = "start"
  /\ lines = <<>>
  /\ index = 1
  /\ elements = <<>>
  /\ listItems = <<>>
  /\ isInList = FALSE
  /\ listType = "bullet"
  /\ pass = 1
  /\ firstPass = [content |-> <<>>, elements |-> <<>>]
  /\ \E c \in TwoInputs : other = Frame(c)

TwoNext ==
  \/ ReturnNull
  \/ CleanAndSplit
  \/ EmptyLine
  \/ H2Line
  \/ H3Line
  \/ BoldHeaderLine
  \/ BulletLine
  \/ NumberedLine
  \/ ParagraphLine
  \/ FinalFlush
  \/ Switch

TwoSpec == TwoInit /\ [][TwoNext]_vars

TypeOK ==
  /\ pc \in {"start", "loop", "done"}
  /\ isInList \in BOOLEAN
  /\ listType \in {"bullet", "numbered"}
  /\ index \in 1..(Len(lines) + 1)
  /\ pass \in {1, 2}

\* the input of the first invocation, and its finished output
Source == IF pass = 1 THEN content ELSE firstPass.content
Finished == pc = "done" /\ pass = 1

\* ------------------------------------------------------------ claims

IsSpan(sp) == DOMAIN sp = {"em", "value"} /\ sp.em \in BOOLEAN /\ sp.value \in Seq(STRING)
IsSpans(sps) == \A i \in 1..Len(sps) : IsSpan(sps[i])
IsNode(n) ==
  /\ n.kind \in {"heading", "paragraph", "bulletList", "numberedList"}
  /\ IsSpans(n.spans)
  /\ \A i \in 1..Len(n.items) : IsSpans(n.items[i])
  /\ n.kind = "heading" => n.level \in {2, 3}
NodeSeqOK == \A i \in 1..Len(elements) : IsNode(elements[i])

\* a state where the invocation has returned, or one of its steps applies: no
\* line of any input is left without a case, no state is an error state
NoStuck ==
  \/ pc = "done"
  \/ pc = "start"
  \/ IsEmptyLine \/ IsH2Line \/ IsH3Line \/ IsBoldHeaderLine
  \/ IsBulletLine \/ IsNumberedLine \/ IsParagraphLine
  \/ (pc = "loop" /\ index > Len(lines))

\* the steps an invocation has left at most: it decreases with every step
Remaining ==
  IF pc = "start" THEN Len(content) + 3
  ELSE IF pc = "loop" THEN Len(lines) + 2 - index
  ELSE 0

\* C1: for every input the formatter terminates and returns a node sequence
\* (possibly empty) without raising: in every state the invocation has returned or
\* has a step to take, every step of an invocation brings it closer to its return,
\* and the output is always a sequence of well-formed nodes.
C1_Total ==
  /\ [](NodeSeqOK /\ NoStuck)
  /\ [][pc # "done" => (Remaining' < Remaining /\ Remaining' >= 0)]_vars

\* a malformed input ("**a*") that has degraded to a plain paragraph
C1_Witness ==
  /\ Finished
  /\ content = <<"*", "*", "a", "*">>
  /\ elements = <<Paragraph(<<PlainText(<<"a">>)>>)>>

\* C2: "**Warning:** Use less water" yields exactly one Paragraph with the spans
\* Emphasis "Warning", PlainText ": Use less water".
C2_WarningSpans ==
  (Finished /\ content = WarningLine) =>
    elements = <<Paragraph(<<Emphasis(<<"W", "a", "r", "n", "i", "n", "g">>),
                             PlainText(<<":", " ", "U", "s", "e", " ", "l", "e", "s", "s",
                                         " ", "w", "a", "t", "e", "r">>)>>)>>

\* C3: "Plant health is ***excellent***" yields one Paragraph with PlainText
\* "Plant health is " followed by Emphasis "excellent".
C3_TripleBecomesEmphasis ==
  (Finished /\ content = ExcellentLine) =>
    elements = <<Paragraph(<<PlainText(<<"P", "l", "a", "n", "t", " ", "h", "e", "a", "l",
                                         "t", "h", " ", "i", "s", " ">>),
                             Emphasis(<<"e", "x", "c", "e", "l", "l", "e", "n", "t">>)>>)>>

\* ---- the lines of the input, as the claims speak of them

rawLines == Split(Source)
IsBlankRaw(l) == Trim(l) = <<>>
IsBulletRaw(l) == NoHeader(Trim(l)) /\ matchedBullet(Trim(l)) > 0
Count(seq, P(_)) == Cardinality({i \in 1..Len(seq) : P(seq[i])})
IsBulletList(n) == n.kind = "bulletList"
IsNumberedList(n) == n.kind = "numberedList"

\* the blank line of an input made of bullet lines, one blank line, bullet lines
\* (0 when the input is of another shape)
BlankBetweenBullets ==
  LET ks == {k \in 2..(Len(rawLines) - 1) :
               /\ IsBlankRaw(rawLines[k])
               /\ \A i \in 1..Len(rawLines) : i # k => IsBulletRaw(rawLines[i])}
  IN  IF ks = {} THEN 0 ELSE CHOOSE k \in ks : TRUE

\* C4: bullet lines, a blank line (empty or whitespace-only), then more bullet
\* lines yield two BulletList nodes, the first with the items before the blank
\* line and the second with the items after it.
C4_BlankLineSplitsList ==
  (Finished /\ BlankBetweenBullets > 0) =>
    /\ Len(elements) = 2
    /\ IsBulletList(elements[1]) /\ IsBulletList(elements[2])
    /\ Len(elements[1].items) = BlankBetweenBullets - 1
    /\ Len(elements[2].items) = Len(rawLines) - BlankBetweenBullets

\* the units of the output: headings, paragraphs and list items
RECURSIVE Units(_)
Units(els) ==
  IF Len(els) = 0 THEN 0
  ELSE (IF els[1].kind \in {"bulletList", "numberedList"} THEN Len(els[1].items) ELSE 1)
       + Units(Tail(els))

\* a line whose text is empty once its markers are stripped: emphasis markers and
\* whitespace only
OnlyMarkers(l) == \A i \in 1..Len(l) : IsStar(l[i]) \/ IsWs(l[i])
NonBlankRaw(l) == ~IsBlankRaw(l)
HasText(l) == ~OnlyMarkers(l)

\* C5: every input line that is non-empty after trimming gives exactly one node or
\* exactly one list item, and gives nothing only when its text is empty after
\* marker stripping: the output has at least one unit per line with text and at
\* most one per non-blank line.
C5_OneUnitPerLine ==
  Finished =>
    /\ Units(elements) >= Count(rawLines, HasText)
    /\ Units(elements) <= Count(rawLines, NonBlankRaw)

\* the characters no step treats as a marker or as whitespace
IsLetter(c) == c \notin (WS \cup Digits \cup {"*", "-", BULLET, "#", ".", ")"})
Letters(str) == SelectSeq(str, IsLetter)
RECURSIVE Flat(_)
Flat(ls) == IF Len(ls) = 0 THEN <<>> ELSE ls[1] \o Flat(Tail(ls))
OutputText(els) == Flat(OutputLines(els))

\* C6: the output preserves the order of the input: the letters of the output,
\* read node by node, item by item and span by span, are the letters of the input
\* in input order (so a node or item made from an earlier line comes before one
\* made from a later line, and a list stands where its first item occurred).
C6_OrderPreserved == Finished => Letters(OutputText(elements)) = Letters(content)

\* a paragraph, then a two-item list, then a paragraph, in input order
C6_Witness ==
  /\ Finished
  /\ content = Join(<< <<"a">>, <<"-", " ", "b", " ", "c">>, <<"b", " ", "*", "*", "c", "*", "*">> >>)
  /\ Len(elements) = 3
  /\ IsBulletList(elements[2])

AllWs(str) == \A i \in 1..Len(str) : IsWs(str[i])

\* C7: an empty input and a whitespace-only input both produce an empty node
\* sequence.
C7_BlankInputEmptyOutput == (Finished /\ AllWs(content)) => elements = <<>>

\* the input "   " has been formatted
C7_Witness == Finished /\ content = <<" ", " ", " ">> /\ elements = <<>>

\* ---- list-only inputs

HasStar(str) == \E i \in 1..Len(str) : IsStar(str[i])
\* a run of three or more whitespace characters, line breaks included
HasWideGap(str) == \E i \in 1..(Len(str) - 2) : IsWs(str[i]) /\ IsWs(str[i + 1]) /\ IsWs(str[i + 2])

\* index where the text of a raw line starts after a marker ending before p and the
\* whitespace after it; 0 when there is no whitespace or no marker-free text
TextStart(l, p) ==
  IF ~(p <= Len(l) /\ IsWs(l[p])) THEN 0
  ELSE LET k == WsEnd(l, p)
       IN  IF k <= Len(l) /\ ~HasStar(Slice(l, k, Len(l))) THEN k ELSE 0

\* '-', whitespace, marker-free text
DashTextStart(l) == IF Len(l) >= 1 /\ l[1] = "-" THEN TextStart(l, 2) ELSE 0
\* digits, '.' or ')', whitespace, marker-free text
NumberTextStart(l) ==
  LET d == DigitEnd(l, 1)
  IN  IF d > 1 /\ d <= Len(l) /\ l[d] \in {".", ")"} THEN TextStart(l, d + 1) ELSE 0

\* the text of the line: what follows the marker and its whitespace, up to the
\* last character that is not whitespace
DashText(l) == Slice(l, DashTextStart(l), WsStartBack(l, Len(l)))
NumberText(l) == Slice(l, NumberTextStart(l), WsStartBack(l, Len(l)))

OnlyDashLines == \A i \in 1..Len(rawLines) : DashTextStart(rawLines[i]) > 0
OnlyNumberLines == \A i \in 1..Len(rawLines) : NumberTextStart(rawLines[i]) > 0

\* one list node of the given kind, item k being the text of line k
OneListOf(kind, Text(_)) ==
  /\ Len(elements) = 1
  /\ elements[1].kind = kind
  /\ Len(elements[1].items) = Len(rawLines)
  /\ \A k \in 1..Len(rawLines) : elements[1].items[k] = <<PlainText(Text(rawLines[k]))>>

\* C8: n >= 1 consecutive bullet lines ('-', whitespace, marker-free text) yield
\* exactly one BulletList of n items, item k being the text of line k with the
\* marker stripped.
C8_BulletLines == (Finished /\ OnlyDashLines) => OneListOf("bulletList", DashText)

\* C8 where the pre-cleaning pass has no run of three or more whitespace characters
\* to collapse: there the claim holds.
C8_BulletLinesNoWideGap ==
  (Finished /\ OnlyDashLines /\ ~HasWideGap(content)) => OneListOf("bulletList", DashText)

\* C9: n >= 1 consecutive numbered lines (digits, '.' or ')', whitespace,
\* marker-free text) yield exactly one NumberedList of n items in input order,
\* item k being the text of line k with the number marker stripped.
C9_NumberedLines == (Finished /\ OnlyNumberLines) => OneListOf("numberedList", NumberText)

\* C9 where the pre-cleaning pass has no run of three or more whitespace characters
\* to collapse: there the claim holds.
C9_NumberedLinesNoWideGap ==
  (Finished /\ OnlyNumberLines /\ ~HasWideGap(content)) => OneListOf("numberedList", NumberText)

\* a text with no markup: no emphasis, heading or list marker character
NoMarkup(str) == \A i \in 1..Len(str) : str[i] \notin (Digits \cup {"*", "-", BULLET, "#"})

\* C10: for plain text with no markup, formatting it, reconstructing the plain
\* text from the output spans and formatting that again gives the result of the
\* first pass.
C10_RoundTrip ==
  (pc = "done" /\ pass = 2 /\ NoMarkup(firstPass.content)) => elements = firstPass.elements

\* the round trip of " a:a", which the first pass turned into one Paragraph "a:a"
C10_Witness ==
  /\ pc = "done"
  /\ pass = 2
  /\ firstPass.content = <<" ", "a", ":", "a">>
  /\ content = <<"a", ":", "a">>
  /\ elements = <<Paragraph(<<PlainText(<<"a", ":", "a">>)>>)>>

\* ---- the text of a node against the text of its line

NoStars(str) == SelectSeq(str, LAMBDA c : ~IsStar(c))
Last(seq) == seq[Len(seq)]

\* the trimmed pre-cleaned line the loop is at, without its leading heading or
\* list marker (and the whitespace after the marker)
LineText ==
  IF IsH2Line THEN Slice(trimmedLine, h2Match(trimmedLine), Len(trimmedLine))
  ELSE IF IsH3Line THEN Slice(trimmedLine, h3Match(trimmedLine), Len(trimmedLine))
  ELSE IF IsBulletLine THEN Slice(trimmedLine, matchedBullet(trimmedLine), Len(trimmedLine))
  ELSE IF IsNumberedLine THEN Slice(trimmedLine, numberedMatch(trimmedLine), Len(trimmedLine))
  ELSE trimmedLine

\* the line's text with its emphasis markers removed (whitespace left bare at
\* either end by a removed marker is not counted)
ExpectedText == Trim(NoStars(LineText))

\* the step pushes a heading or a paragraph
PushesNode ==
  \/ IsH2Line \/ IsH3Line \/ IsBoldHeaderLine
  \/ (IsParagraphLine /\ Len(elements') > Len(flushList(elements, listItems, listType)))

\* C11: for every emitted heading, paragraph and list item, the span values
\* concatenated in order are the text of the pre-cleaned line after its leading
\* marker is stripped and its emphasis markers are removed; nothing else is
\* added, lost or reordered.
C11_SpansReconstructLine ==
  [][/\ PushesNode => Trim(NodeText(Last(elements').spans)) = ExpectedText
     /\ (IsBulletLine \/ IsNumberedLine) =>
          Trim(NodeText(formatInlineText(Last(listItems')))) = ExpectedText]_vars

\* ---- the output of an invocation that runs alone

\* the locals after the forEach callback has run on one line
AloneLine(st, line) ==
  LET t == Trim(line)
      flushed == [elements |-> flushList(st.elements, st.listItems, st.listType),
                  listItems |-> <<>>,
                  isInList |-> flushInList(st.listItems, st.isInList),
                  listType |-> st.listType]
      item(type, text) ==
        IF st.isInList THEN [st EXCEPT !.listItems = Append(@, text)]
        ELSE [flushed EXCEPT !.listItems = <<text>>, !.isInList = TRUE, !.listType = type]
  IN  IF t = <<>> THEN flushed
      ELSE IF h2Match(t) > 0
        THEN [flushed EXCEPT !.elements =
                Append(@, Heading(2, formatInlineText(Slice(t, h2Match(t), Len(t)))))]
      ELSE IF h3Match(t) > 0
        THEN [flushed EXCEPT !.elements =
                Append(@, Heading(3, formatInlineText(Slice(t, h3Match(t), Len(t)))))]
      ELSE IF boldHeaderMatch(t) > 0
        THEN [flushed EXCEPT !.elements = Append(@, Heading(3, <<PlainText(boldHeaderText(t))>>))]
      ELSE IF matchedBullet(t) > 0 THEN item("bullet", bulletText(t))
      ELSE IF numberedMatch(t) > 0 THEN item("numbered", Slice(t, numberedMatch(t), Len(t)))
      ELSE IF cleanedLine(t) # <<>>
        THEN [flushed EXCEPT !.elements = Append(@, Paragraph(formatInlineText(cleanedLine(t))))]
      ELSE flushed

RECURSIVE AloneFrom(_, _, _)
AloneFrom(st, ls, i) ==
  IF i > Len(ls) THEN flushList(st.elements, st.listItems, st.listType)
  ELSE AloneFrom(AloneLine(st, ls[i]), ls, i + 1)

\* the elements of one invocation on c with nothing else running
RunAlone(c) ==
  IF c = <<>> THEN <<>>
  ELSE AloneFrom([elements |-> <<>>, listItems |-> <<>>, isInList |-> FALSE, listType |-> "bullet"],
                 Split(cleanContent(c)), 1)

\* the sequential model agrees with RunAlone
AloneAgrees == pc = "done" => elements = RunAlone(content)

\* C12: two invocations on the same input give identical output, and when the
\* steps of two invocations on any two inputs interleave, each gives the output
\* it would give alone.
C12_IndependentInvocations ==
  /\ pc = "done" => elements = RunAlone(content)
  /\ other.pc = "done" => other.elements = RunAlone(other.content)
  /\ (pc = "done" /\ other.pc = "done" /\ content = other.content) => elements = other.elements

\* both invocations finished after their steps alternated, each with a list
C12_Witness ==
  /\ pc = "done"
  /\ other.pc = "done"
  /\ content = <<"-", " ", "a", NL, "a">>
  /\ other.content = <<"1", ".", " ", "a", NL, "#", "#", " ", "a">>
  /\ Len(elements) = 2
  /\ Len(other.elements) = 2

\* ---- lines that are one emphasis-wrapped run

HasNL(str) == \E i \in 1..Len(str) : str[i] = NL
DropColon(str) ==
  IF Len(str) > 0 /\ str[Len(str)] = ":" THEN SubSeq(str, 1, Len(str) - 1) ELSE str

\* the text X of a line "**X**", "**X**:" or "**X:**", <<>> for any other line
WrappedText(t) ==
  LET u == DropColon(t)
      x == IF Len(u) >= 5 /\ u[1] = "*" /\ u[2] = "*" /\ u[Len(u)] = "*" /\ u[Len(u) - 1] = "*"
           THEN DropColon(SubSeq(u, 3, Len(u) - 2))
           ELSE <<>>
  IN  IF HasStar(x) \/ AllWs(x) THEN <<>> ELSE x

\* C13: a one-line input whose trimmed content is one emphasis-wrapped run,
\* with an optional colon after it or inside it, gives one level-3 Heading
\* with the unwrapped text, the colon dropped.
C13_WrappedRunIsHeading ==
  (Finished /\ ~HasNL(content) /\ WrappedText(Trim(content)) # <<>>) =>
    elements = <<Heading(3, <<PlainText(WrappedText(Trim(content)))>>)>>

\* ---- lists of one type

\* C14: a list line of the other type than the open list flushes the open list
\* and opens a new one, so that a BulletList holds only items of bullet lines
\* and a NumberedList only items of numbered lines.
C14_OtherMarkerOpensNewList ==
  [][/\ IsBulletLine =>
          /\ listType' = "bullet"
          /\ (isInList /\ listType = "numbered") =>
                /\ elements' = flushList(elements, listItems, listType)
                /\ Len(listItems') = 1
     /\ IsNumberedLine =>
          /\ listType' = "numbered"
          /\ (isInList /\ listType = "bullet") =>
                /\ elements' = flushList(elements, listItems, listType)
                /\ Len(listItems') = 1]_vars

\* ---- emphasis markers in the output

NoStarIn(spans) == \A k \in 1..Len(spans) : ~HasStar(spans[k].value)

\* C15: no '*' is in a PlainText or Emphasis span value of any emitted node.
C15_NoStarSurvives ==
  \A i \in 1..Len(elements) :
    /\ NoStarIn(elements[i].spans)
    /\ \A j \in 1..Len(elements[i].items) : NoStarIn(elements[i].items[j])

\* ---- content after an emphasis-wrapped run

\* t is "**X**" or "**X**:" with X free of '*' and not blank, followed by more
TrailingContent(t) ==
  /\ Len(t) >= 2 /\ IsStar(t[1]) /\ IsStar(t[2])
  /\ LET j == NonStarEnd(t, 3)
     IN  /\ j > 3 /\ j + 1 <= Len(t) /\ IsStar(t[j]) /\ IsStar(t[j + 1])
         /\ ~AllWs(Slice(t, 3, j - 1))
         /\ (IF j + 2 <= Len(t) /\ t[j + 2] = ":" THEN j + 3 ELSE j + 2) <= Len(t)

IsOneParagraph(els) == Len(els) = 1 /\ els[1].kind = "paragraph"

\* C16 as stated, on the raw input: a one-line input with content after the
\* emphasis-wrapped run and optional colon, trailing decorative markers
\* included, gives a Paragraph and no Heading.
C16_RawTrailingContent ==
  (Finished /\ ~HasNL(content) /\ TrailingContent(Trim(content))) => IsOneParagraph(elements)

\* C16: a pre-cleaned line with content after the emphasis-wrapped run and
\* optional colon is emitted as a Paragraph, never as a Heading.
C16_TrailingContentIsParagraph ==
  [][(InLoop /\ TrailingContent(trimmedLine)) =>
        /\ Len(elements') = Len(flushList(elements, listItems, listType)) + 1
        /\ Last(elements').kind = "paragraph"]_vars

\* "**a**." has been emitted as a paragraph
C16_Witness ==
  /\ Finished
  /\ content = BoldThenDot
  /\ IsOneParagraph(elements)

\* ---- hash headings

\* the number of '#' a line starts with
RECURSIVE HashEnd(_, _)
HashEnd(t, i) == IF i <= Len(t) /\ t[i] = "#" THEN HashEnd(t, i + 1) ELSE i
HashCount(t) == HashEnd(t, 1) - 1

\* where the content of a line of n hashes starts: after the whitespace that
\* follows the hashes; 0 when no whitespace follows them
HashContent(t, n) == IF n + 1 <= Len(t) /\ IsWs(t[n + 1]) THEN WsEnd(t, n + 1) ELSE 0

\* the step appends exactly the node n after flushing
Appends(n) == elements' = Append(flushList(elements, listItems, listType), n)

\* C17: a trimmed line of two '#', whitespace and content is a level-2 Heading
\* of the content; one of three '#', whitespace and content a level-3 Heading;
\* a line with any other hash prefix (one '#', four or more, no space after
\* the hashes) is a Paragraph.
C17_HashCountDecides ==
  [][(InLoop /\ HashCount(trimmedLine) > 0) =>
        LET t == trimmedLine
            n == HashCount(t)
            c == HashContent(t, n)
        IN  IF n = 2 /\ c > 0 THEN Appends(Heading(2, formatInlineText(Slice(t, c, Len(t)))))
            ELSE IF n = 3 /\ c > 0 THEN Appends(Heading(3, formatInlineText(Slice(t, c, Len(t)))))
            ELSE /\ Len(elements') = Len(flushList(elements, listItems, listType)) + 1
                 /\ Last(elements').kind = "paragraph"
                 /\ NodeText(Last(elements').spans) = t]_vars

\* "### b" then "#### a" has given a level-3 heading and a paragraph
C17_Witness ==
  /\ Finished
  /\ content = <<"#", "#", "#", " ", "b", NL, "#", "#", "#", "#", " ", "a">>
  /\ Len(elements) = 2
  /\ elements[1].kind = "heading" /\ elements[1].level = 3
  /\ elements[2].kind = "paragraph"

\* ---- a heading or a plain line between list lines

\* a raw line that is a list line, and one that is a heading or a plain line
IsListLine(l) ==
  LET t == Trim(l) IN NoHeader(t) /\ (matchedBullet(t) > 0 \/ numberedMatch(t) > 0)
IsBreakLine(l) == Trim(l) # <<>> /\ ~IsListLine(l)

IsListOf(node, n) == node.kind \in {"bulletList", "numberedList"} /\ Len(node.items) = n

\* the raw lines are list lines, then one heading or plain line at k, then list lines
ListsAround(k) ==
  /\ 1 < k /\ k < Len(rawLines)
  /\ IsBreakLine(rawLines[k])
  /\ \A i \in 1..Len(rawLines) : i # k => IsListLine(rawLines[i])

PushesItem(l) ==
  LET t == Trim(l) IN NoHeader(t) /\ (matchedBullet(t) > 0 \/ numberedMatch(t) > 0)
ItemOf(l) ==
  LET t == Trim(l)
  IN  IF matchedBullet(t) > 0 THEN bulletText(t) ELSE Slice(t, numberedMatch(t), Len(t))

\* the items pushed by the lines before index n, as spans, in order
RECURSIVE PushedBefore(_)
PushedBefore(n) ==
  IF n <= 1 THEN <<>>
  ELSE IF PushesItem(lines[n - 1])
    THEN Append(PushedBefore(n - 1), formatInlineText(ItemOf(lines[n - 1])))
  ELSE PushedBefore(n - 1)

\* the items of the emitted list nodes, in order
RECURSIVE EmittedItems(_)
EmittedItems(els) ==
  IF els = <<>> THEN <<>>
  ELSE EmittedItems(SubSeq(els, 1, Len(els) - 1)) \o Last(els).items

BufferedItems == [i \in 1..Len(listItems) |-> formatInlineText(listItems[i])]

\* C19: no list item is lost or duplicated: the items of the emitted list nodes
\* followed by the buffer are the items pushed so far, each once and in order;
\* the list is open exactly when the buffer is non-empty; a step that flushes
\* leaves the buffer empty and the list closed; a list open at the end of the
\* input is emitted as the last node.
C19_ItemsConserved ==
  /\ [](/\ isInList <=> listItems # <<>>
        /\ pc = "loop" => EmittedItems(elements) \o BufferedItems = PushedBefore(index)
        /\ pc = "done" /\ content # <<>> =>
             /\ listItems = <<>>
             /\ EmittedItems(elements) = PushedBefore(Len(lines) + 1))
  /\ [][/\ (IsEmptyLine \/ IsH2Line \/ IsH3Line \/ IsBoldHeaderLine \/ IsParagraphLine) =>
             (listItems' = <<>> /\ ~isInList')
        /\ (pc = "loop" /\ index > Len(lines)) =>
             /\ listItems' = <<>> /\ ~isInList'
             /\ isInList => elements' = Append(elements, ListNode(listType, listItems))]_vars

\* "- a", "- b c" and the end of the input: the open list of two items has been
\* emitted as the last node
C19_Witness ==
  /\ Finished
  /\ content = <<"a", NL, "-", " ", "a", NL, "-", " ", "b", " ", "c">>
  /\ Len(elements) = 2
  /\ elements[2] = ListNode("bullet", << <<"a">>, <<"b", " ", "c">> >>)

\* ---- the spans of formatInlineText

\* the number of "**" in str
DelimCount(str) == Cardinality({i \in 1..(Len(str) - 1) : IsStar(str[i]) /\ IsStar(str[i + 1])})

\* the spans written back as text: every Emphasis value between "**" and "**"
RECURSIVE Rewrap(_)
Rewrap(spans) ==
  IF spans = <<>> THEN <<>>
  ELSE (IF spans[1].em THEN <<"*", "*">> \o spans[1].value \o <<"*", "*">> ELSE spans[1].value)
       \o Rewrap(Tail(spans))

\* spans are what the claim says of text, once the lone markers are out of it
\* and every run of three or more is "**"
InlineOK(text, spans) ==
  LET c == RemoveLoneStars(NormalizeStars(text, 1))
  IN  IF DelimCount(c) < 2 THEN spans = <<PlainText(c)>>
      ELSE /\ Rewrap(spans) = c
           /\ Cardinality({k \in 1..Len(spans) : spans[k].em}) = DelimCount(c) \div 2
           /\ \A k \in 1..Len(spans) :
                /\ spans[k].value # <<>>
                /\ spans[k].em => ~HasStar(spans[k].value)
                /\ (~spans[k].em /\ k < Len(spans)) => (~HasStar(spans[k].value) /\ spans[k + 1].em)
                /\ (~spans[k].em /\ k = Len(spans)) => DelimCount(spans[k].value) <= 1

\* the text a heading or paragraph step hands to formatInlineText
FormattedText ==
  IF IsH2Line THEN Slice(trimmedLine, h2Match(trimmedLine), Len(trimmedLine))
  ELSE IF IsH3Line THEN Slice(trimmedLine, h3Match(trimmedLine), Len(trimmedLine))
  ELSE cleanedLine(trimmedLine)

\* C20: formatInlineText turns a text with one or more "**"-delimited runs into
\* spans in source order, each run one Emphasis span of the shortest text
\* between an opening "**" and the next closing one, the text between and around
\* the runs PlainText spans, none of them empty; a text with no run is returned
\* as one PlainText span.
C20_InlineSpans ==
  [][/\ (IsH2Line \/ IsH3Line \/ (IsParagraphLine /\ PushesNode)) =>
          InlineOK(FormattedText, Last(elements').spans)
     /\ (listItems # <<>> /\ Len(elements') > Len(elements)) =>
          \A i \in 1..Len(listItems) :
             InlineOK(listItems[i], elements'[Len(elements) + 1].items[i])]_vars

\* "## a **b** c **d** e" has given a heading of five spans, two of them emphasis
C20_Witness ==
  /\ Finished
  /\ content = <<"#", "#", " ", "a", " ", "*", "*", "b", "*", "*", " ", "c", " ",
                 "*", "*", "d", "*", "*", " ", "e">>
  /\ elements = <<Heading(2, <<PlainText(<<"a", " ">>), Emphasis(<<"b">>), PlainText(<<" ", "c", " ">>),
                               Emphasis(<<"d">>), PlainText(<<" ", "e">>)>>)>>

\* ---- line breaks through the pre-cleaning pass

\* C21: cleanContent never removes or inserts a line break: the cleaned text
\* splits into as many lines as the raw input.
C21_CleaningKeepsLines ==
  pc = "loop" => Len(lines) = Len(Split(content))

\* ------------------------------------------------------------ MarketPrices

\* the most crops that can be selected
MaxSelected == 5

\* POPULAR_CROPS, five of them
POPULAR_CROPS == {<<"a">>, <<"b">>, <<"c">>, <<"d">>, <<"e">>}

\* texts typed into the custom crop input: empty, blank, a popular crop with and
\* without spaces around it, and two crops that are not popular ones
CustomTexts ==
  {<<>>, <<" ">>, <<"a">>, <<" ", "a", " ">>, <<"x">>, <<"x", " ">>, <<"y">>}

\* selectedCrops.includes(crop)
Includes(crops, crop) == \E i \in 1..Len(crops) : crops[i] = crop

\* the crops that have a badge
Selected == {selectedCrops[i] : i \in 1..Len(selectedCrops)}

\* a toggleCrop that adds whatever the number of selected crops
toggleCropNoLimit(crop) ==
  /\ currentStep = "select-crops"
  /\ selectedCrops' =
       IF Includes(selectedCrops, crop) THEN SelectSeq(selectedCrops, LAMBDA c : c # crop)
       ELSE Append(selectedCrops, crop)
  /\ UNCHANGED <<currentStep, customCrop, endDate, location, useCurrentLocation, currentCoords,
                 marketData, selectedCrop, isLoading, fetchPc, sentBody, geoPc, notWizardVars>>

\* toggleCrop: the onClick of a popular crop button and of a selected crop badge
toggleCrop(crop) ==
  /\ currentStep = "select-crops"
  /\ selectedCrops' =
       IF Includes(selectedCrops, crop) THEN SelectSeq(selectedCrops, LAMBDA c : c # crop)
       ELSE IF Len(selectedCrops) < MaxSelected THEN Append(selectedCrops, crop)
       ELSE selectedCrops
  /\ UNCHANGED <<currentStep, customCrop, endDate, location, useCurrentLocation, currentCoords,
                 marketData, selectedCrop, isLoading, fetchPc, sentBody, geoPc, notWizardVars>>

\* onChange of the custom crop input
setCustomCrop(text) ==
  /\ currentStep = "select-crops"
  /\ customCrop' = text
  /\ UNCHANGED <<currentStep, selectedCrops, endDate, location, useCurrentLocation, currentCoords,
                 marketData, selectedCrop, isLoading, fetchPc, sentBody, geoPc, notWizardVars>>

\* addCustomCrop: the Add button and the Enter key of the custom crop input
addCustomCrop ==
  /\ currentStep = "select-crops"
  /\ IF Trim(customCrop) # <<>> /\ ~Includes(selectedCrops, Trim(customCrop))
          /\ Len(selectedCrops) < MaxSelected
     THEN selectedCrops' = Append(selectedCrops, Trim(customCrop)) /\ customCrop' = <<>>
     ELSE UNCHANGED <<selectedCrops, customCrop>>
  /\ UNCHANGED <<currentStep, endDate, location, useCurrentLocation, currentCoords,
                 marketData, selectedCrop, isLoading, fetchPc, sentBody, geoPc, notWizardVars>>

\* the buttons that move between the steps
GoToStep(from, to) ==
  /\ currentStep = from
  /\ currentStep' = to
  /\ UNCHANGED <<selectedCrops, customCrop, endDate, location, useCurrentLocation, currentCoords,
                 marketData, selectedCrop, isLoading, fetchPc, sentBody, geoPc, notWizardVars>>

\* "Next: Select Date", disabled with no crop selected
NextToDate == Len(selectedCrops) # 0 /\ GoToStep("select-crops", "select-date")
BackToCrops == GoToStep("select-date", "select-crops")
NextToLocation == GoToStep("select-date", "select-location")
BackToDate == GoToStep("select-location", "select-date")

\* the end date calendar and the "Clear end date" button
setEndDate(d) ==
  /\ currentStep = "select-date"
  /\ endDate' = d
  /\ UNCHANGED <<currentStep, selectedCrops, customCrop, location, useCurrentLocation, currentCoords,
                 marketData, selectedCrop, isLoading, fetchPc, sentBody, geoPc, notWizardVars>>

\* getCurrentLocation up to the call of navigator.geolocation.getCurrentPosition
getCurrentLocation ==
  /\ currentStep = "select-location"
  /\ geoPc = "idle"
  /\ geoPc' = "locating"
  /\ UNCHANGED <<currentStep, selectedCrops, customCrop, endDate, location, useCurrentLocation,
                 currentCoords, marketData, selectedCrop, isLoading, fetchPc, sentBody, notWizardVars>>

\* the success callback up to its await of getLocationName
GeoPosition ==
  /\ geoPc = "locating"
  /\ currentCoords' = "coords"
  /\ useCurrentLocation' = TRUE
  /\ geoPc' = "naming"
  /\ UNCHANGED <<currentStep, selectedCrops, customCrop, endDate, location,
                 marketData, selectedCrop, isLoading, fetchPc, sentBody, notWizardVars>>

\* the error callback
GeoError ==
  /\ geoPc = "locating"
  /\ geoPc' = "idle"
  /\ UNCHANGED <<currentStep, selectedCrops, customCrop, endDate, location, useCurrentLocation,
                 currentCoords, marketData, selectedCrop, isLoading, fetchPc, sentBody, notWizardVars>>

\* the success callback after getLocationName: setLocation(locationName)
GeoNamed ==
  /\ geoPc = "naming"
  /\ location' = "Here"
  /\ geoPc' = "idle"
  /\ UNCHANGED <<currentStep, selectedCrops, customCrop, endDate, useCurrentLocation,
                 currentCoords, marketData, selectedCrop, isLoading, fetchPc, sentBody, notWizardVars>>

\* onChange of the location input (disabled while useCurrentLocation) and the
\* onClick of a popular location badge
setLocation(text) ==
  /\ currentStep = "select-location"
  /\ text = "" => ~useCurrentLocation
  /\ location' = text
  /\ useCurrentLocation' = FALSE
  /\ UNCHANGED <<currentStep, selectedCrops, customCrop, endDate,
                 currentCoords, marketData, selectedCrop, isLoading, fetchPc, sentBody, geoPc,
                 notWizardVars>>

\* "Get Market Prices" of the location step and "Refresh" of the results are
\* rendered and not disabled
FetchButton ==
  \/ currentStep = "select-location" /\ ~(isLoading \/ (location = "" /\ ~useCurrentLocation))
  \/ currentStep = "results" /\ marketData # "null" /\ selectedCrop # "null" /\ ~isLoading

\* fetchMarketPrices up to its await
fetchMarketPrices ==
  /\ FetchButton
  /\ IF Len(selectedCrops) = 0
     THEN UNCHANGED <<isLoading, fetchPc, sentBody>>
     ELSE /\ isLoading' = TRUE
          /\ fetchPc' = "waiting"
          /\ sentBody' = [crops |-> selectedCrops,
                          location |-> IF location = "" THEN "India" ELSE location,
                          coordinates |-> currentCoords, sent |-> TRUE]
  /\ UNCHANGED <<currentStep, selectedCrops, customCrop, endDate, location, useCurrentLocation,
                 currentCoords, marketData, selectedCrop, geoPc, notWizardVars>>

\* the outcomes of the request: prices in the body, an error field in the body,
\* an invoke error, a thrown exception, a body with neither prices nor error
FetchOutcomes == {"prices", "errorField", "invokeError", "thrown", "neither"}

\* fetchMarketPrices after its await: the branches of the try, the catch, the finally
FetchDone(outcome) ==
  /\ fetchPc = "waiting"
  /\ IF outcome = "prices"
     THEN marketData' = "data" /\ selectedCrop' = "first" /\ currentStep' = "results"
     ELSE UNCHANGED <<marketData, selectedCrop, currentStep>>
  /\ isLoading' = FALSE
  /\ fetchPc' = "idle"
  /\ UNCHANGED <<selectedCrops, customCrop, endDate, location, useCurrentLocation,
                 currentCoords, sentBody, geoPc, notWizardVars>>

\* onClick of a crop of the results
setSelectedCrop(price) ==
  /\ currentStep = "results"
  /\ marketData # "null"
  /\ selectedCrop # "null"
  /\ selectedCrop' = price
  /\ UNCHANGED <<currentStep, selectedCrops, customCrop, endDate, location, useCurrentLocation,
                 currentCoords, marketData, isLoading, fetchPc, sentBody, geoPc, notWizardVars>>

\* resetAndStartOver: "Start Over" and "New Search" of the results
resetAndStartOver ==
  /\ currentStep = "results"
  /\ currentStep' = "select-crops"
  /\ selectedCrops' = <<>>
  /\ endDate' = "undefined"
  /\ location' = ""
  /\ marketData' = "null"
  /\ selectedCrop' = "null"
  /\ UNCHANGED <<customCrop, useCurrentLocation, currentCoords, isLoading, fetchPc, sentBody, geoPc,
                 notWizardVars>>

\* the crop step alone, with more crops than can be selected
CropInit == FormatterIdle /\ AppStart

CropNext ==
  \/ \E crop \in POPULAR_CROPS \cup Selected : toggleCrop(crop)
  \/ \E text \in CustomTexts : setCustomCrop(text)
  \/ addCustomCrop

CropSpec == CropInit /\ [][CropNext]_vars

\* the whole wizard, with two crops to select from
WizardCrops == {<<"a">>, <<"b">>}

WizardInit == FormatterIdle /\ AppStart

WizardNext ==
  \/ \E crop \in WizardCrops \cup Selected : toggleCrop(crop)
  \/ NextToDate
  \/ BackToCrops
  \/ \E d \in {"undefined", "date"} : setEndDate(d)
  \/ NextToLocation
  \/ BackToDate
  \/ getCurrentLocation
  \/ GeoPosition
  \/ GeoError
  \/ GeoNamed
  \/ \E text \in {"", "Delhi"} : setLocation(text)
  \/ fetchMarketPrices
  \/ \E outcome \in FetchOutcomes : FetchDone(outcome)
  \/ \E price \in {"first", "second"} : setSelectedCrop(price)
  \/ resetAndStartOver

WizardSpec == WizardInit /\ [][WizardNext]_vars

\* ---- the selected crops

NoCropTwice ==
  \A i, j \in 1..Len(selectedCrops) : selectedCrops[i] = selectedCrops[j] => i = j

\* C22: after any sequence of toggleCrop and addCustomCrop calls selectedCrops
\* holds at most 5 entries and no entry twice; toggling a selected crop removes
\* it; an add attempted at 5 entries leaves the list unchanged.
C22_AtMostFiveNoneTwice ==
  /\ [](Len(selectedCrops) <= MaxSelected /\ NoCropTwice)
  /\ [][/\ \A crop \in Selected :
              toggleCrop(crop) => /\ ~Includes(selectedCrops', crop)
                                  /\ Len(selectedCrops') = Len(selectedCrops) - 1
        /\ Len(selectedCrops) = MaxSelected =>
              /\ addCustomCrop => selectedCrops' = selectedCrops
              /\ \A crop \in POPULAR_CROPS \ Selected :
                    toggleCrop(crop) => selectedCrops' = selectedCrops]_vars

\* five crops are selected, a custom one among them, and a sixth is typed in
C22_Witness ==
  /\ Len(selectedCrops) = MaxSelected
  /\ Includes(selectedCrops, <<"x">>)
  /\ customCrop = <<"y">>

\* ---- resetAndStartOver

\* C23: resetAndStartOver returns the wizard to its initial state: currentStep
\* is 'select-crops', selectedCrops is empty, endDate is unset, location is
\* empty, useCurrentLocation is false, currentCoords is null, marketData and
\* selectedCrop are null.
C23_ResetRestoresInitial ==
  [][resetAndStartOver =>
        /\ currentStep' = "select-crops"
        /\ selectedCrops' = <<>>
        /\ endDate' = "undefined"
        /\ location' = ""
        /\ useCurrentLocation' = FALSE
        /\ currentCoords' = "null"
        /\ marketData' = "null"
        /\ selectedCrop' = "null"]_vars

\* ------------------------------------------------------------ PestDetector, SoilAnalyzer

\* handleImageUpload, when the FileReader has loaded the file
handleImageUpload ==
  /\ image' = "image"
  /\ detection' = "null"
  /\ UNCHANGED <<isAnalyzingPest, pestPc, isAnalyzingSoil, analysis, soilPc, notAnalyzeVars>>

clearImage ==
  /\ image # "null"
  /\ image' = "null"
  /\ detection' = "null"
  /\ UNCHANGED <<isAnalyzingPest, pestPc, isAnalyzingSoil, analysis, soilPc, notAnalyzeVars>>

\* PestDetector.handleAnalyze up to its await; the button is rendered with an
\* image and disabled while isAnalyzing
PestAnalyze ==
  /\ image # "null"
  /\ ~isAnalyzingPest
  /\ isAnalyzingPest' = TRUE
  /\ pestPc' = "waiting"
  /\ UNCHANGED <<image, detection, isAnalyzingSoil, analysis, soilPc, notAnalyzeVars>>

\* the outcomes of a request: the result in the body, an error field in the
\* body, an invoke error, a thrown exception, a body with neither
AnalyzeOutcomes == {"result", "errorField", "invokeError", "thrown", "neither"}

\* a handleAnalyze whose "return" of the error-field branch skips the finally
PestDoneReturnSkipsFinally(outcome) ==
  /\ pestPc = "waiting"
  /\ detection' = IF outcome = "result" THEN "detection" ELSE detection
  /\ isAnalyzingPest' = (outcome = "errorField")
  /\ pestPc' = "idle"
  /\ UNCHANGED <<image, isAnalyzingSoil, analysis, soilPc, notAnalyzeVars>>

\* PestDetector.handleAnalyze after its await: the branches of the try, the
\* catch, the finally
PestDone(outcome) ==
  /\ pestPc = "waiting"
  /\ detection' = IF outcome = "result" THEN "detection" ELSE detection
  /\ isAnalyzingPest' = FALSE
  /\ pestPc' = "idle"
  /\ UNCHANGED <<image, isAnalyzingSoil, analysis, soilPc, notAnalyzeVars>>

\* SoilAnalyzer.handleAnalyze up to its await; the button is disabled while
\* isAnalyzing
SoilAnalyze ==
  /\ ~isAnalyzingSoil
  /\ isAnalyzingSoil' = TRUE
  /\ soilPc' = "waiting"
  /\ UNCHANGED <<image, isAnalyzingPest, detection, pestPc, analysis, notAnalyzeVars>>

\* SoilAnalyzer.handleAnalyze after its await: the branches of the try, the
\* catch, the finally
SoilDone(outcome) ==
  /\ soilPc = "waiting"
  /\ analysis' = IF outcome = "result" THEN "analysis" ELSE analysis
  /\ isAnalyzingSoil' = FALSE
  /\ soilPc' = "idle"
  /\ UNCHANGED <<image, isAnalyzingPest, detection, pestPc, notAnalyzeVars>>

\* the three components that send requests, MarketPrices with one crop and one
\* location
BusyInit == FormatterIdle /\ AppStart

BusyNext ==
  \/ toggleCrop(<<"a">>)
  \/ NextToDate
  \/ NextToLocation
  \/ setLocation("Delhi")
  \/ fetchMarketPrices
  \/ \E outcome \in FetchOutcomes : FetchDone(outcome)
  \/ resetAndStartOver
  \/ handleImageUpload
  \/ clearImage
  \/ PestAnalyze
  \/ \E outcome \in AnalyzeOutcomes : PestDone(outcome)
  \/ SoilAnalyze
  \/ \E outcome \in AnalyzeOutcomes : SoilDone(outcome)

\* every request completes
BusySpec ==
  /\ BusyInit
  /\ [][BusyNext]_vars
  /\ WF_vars(\E outcome \in FetchOutcomes : FetchDone(outcome))
  /\ WF_vars(\E outcome \in AnalyzeOutcomes : PestDone(outcome))
  /\ WF_vars(\E outcome \in AnalyzeOutcomes : SoilDone(outcome))

\* ---- the busy flags

\* C24: every started request handler clears its busy flag on every outcome:
\* isLoading of fetchMarketPrices and isAnalyzing of the pest and soil
\* handleAnalyze are false once the request has completed, and every request
\* that completes is followed by a cleared flag.
C24_BusyFlagsCleared ==
  /\ [](/\ isLoading <=> fetchPc = "waiting"
        /\ isAnalyzingPest <=> pestPc = "waiting"
        /\ isAnalyzingSoil <=> soilPc = "waiting")
  /\ (isLoading ~> ~isLoading)
  /\ (isAnalyzingPest ~> ~isAnalyzingPest)
  /\ (isAnalyzingSoil ~> ~isAnalyzingSoil)

\* a request of each of the three handlers has completed with its flag cleared
C24_Witness ==
  /\ sentBody.sent /\ ~isLoading /\ marketData = "null"
  /\ detection = "detection" /\ ~isAnalyzingPest
  /\ analysis = "analysis" /\ ~isAnalyzingSoil

\* ------------------------------------------------------------ Chatbot

\* most requests the chat sends
MaxSends == 3

\* texts typed into the chat input: empty, blank, and two questions, one of them
\* with a space in front
ChatTexts == {<<>>, <<" ">>, <<" ", " ">>, <<"q">>, <<" ", "w">>}

\* onChange of the chat input
setInputValue(text) ==
  /\ inputValue' = text
  /\ UNCHANGED <<messages, isLoadingChat, chatPending, chatSends, sendsOverlapped, notChatVars>>

\* the input is empty or whitespace only: !inputValue.trim()
BlankInput == Trim(inputValue) = <<>>

\* handleSend up to its await: the send button and the Enter key of the input
handleSend ==
  /\ chatSends < MaxSends
  /\ IF BlankInput
     THEN UNCHANGED <<messages, inputValue, isLoadingChat, chatPending, chatSends, sendsOverlapped>>
     ELSE /\ messages' = Append(messages, Message("user", inputValue))
          /\ inputValue' = <<>>
          /\ isLoadingChat' = TRUE
          /\ chatPending' = chatPending + 1
          /\ chatSends' = chatSends + 1
          /\ sendsOverlapped' = (sendsOverlapped \/ chatPending > 0)
  /\ UNCHANGED notChatVars

\* the outcomes of the request: a response in the body, an error field in the
\* body, an invoke error, a thrown exception
ChatOutcomes == {"response", "errorField", "invokeError", "thrown"}

\* handleSend after its await: the branches of the try, the catch, the finally
SendDone(outcome) ==
  /\ chatPending > 0
  /\ messages' = Append(messages, Message("assistant",
                          IF outcome = "response" THEN ModelReply ELSE Apology))
  /\ isLoadingChat' = FALSE
  /\ chatPending' = chatPending - 1
  /\ UNCHANGED <<inputValue, chatSends, sendsOverlapped, notChatVars>>

\* the effect on [language, t]: the language is changed and the messages are
\* set to the greeting
ChangeLanguage ==
  /\ messages' = <<Message("assistant", Greeting)>>
  /\ UNCHANGED <<inputValue, isLoadingChat, chatPending, chatSends, sendsOverlapped, notChatVars>>

ChatInit == FormatterIdle /\ AppStart

ChatNext ==
  \/ \E text \in ChatTexts : setInputValue(text)
  \/ handleSend
  \/ \E outcome \in ChatOutcomes : SendDone(outcome)
  \/ ChangeLanguage

ChatSpec == ChatInit /\ [][ChatNext]_vars

\* ---- the messages of the chat

\* after the first message, user and assistant messages alternate
Alternates ==
  \A i \in 2..Len(messages) :
    messages[i].role = IF i % 2 = 0 THEN "user" ELSE "assistant"

\* C25: handleSend with empty or whitespace-only input changes nothing; every
\* other handleSend appends exactly one user message at once and, when its
\* request completes, exactly one assistant message (the model reply on success,
\* the apology on an error); with sends issued one at a time the messages after
\* the greeting alternate user, assistant.
C25_ChatAlternates ==
  /\ [](~sendsOverlapped => (messages[1] = Message("assistant", Greeting) /\ Alternates))
  /\ [][/\ (handleSend /\ BlankInput) => UNCHANGED chatVars
        /\ (handleSend /\ ~BlankInput) => messages' = Append(messages, Message("user", inputValue))
        /\ \A outcome \in ChatOutcomes :
              SendDone(outcome) =>
                 messages' = Append(messages, Message("assistant",
                               IF outcome = "response" THEN ModelReply ELSE Apology))]_vars

\* ------------------------------------------------------------ edge functions

\* longest reply of the model, in characters
MaxReply == 3

\* analyze-soil/index.ts holds the chat function as well
EdgeFunctions == {"get-market-prices", "analyze-pest", "analyze-soil", "chat", "weather-recommendations"}

corsHeaders == {"Access-Control-Allow-Origin", "Access-Control-Allow-Headers"}

\* { ...corsHeaders, "Content-Type": "application/json" }
JsonHeaders == corsHeaders \cup {"Content-Type"}

\* new Response(JSON.stringify({ error: message }), { status, headers })
ErrorResponse(status, message) == Response(status, JsonHeaders, [error |-> message])

\* aiResponse.match(/\{[\s\S]*\}/): from the first "{" to the last "}" after it;
\* <<>> stands for null
jsonMatch(text) ==
  LET opens  == {i \in 1..Len(text) : text[i] = "{"}
      first  == IF opens = {} THEN 0 ELSE CHOOSE i \in opens : \A k \in opens : i <= k
      closes == {j \in 1..Len(text) : text[j] = "}" /\ j > first}
      last   == IF closes = {} THEN 0 ELSE CHOOSE j \in closes : \A k \in closes : j >= k
  IN  IF first = 0 \/ last = 0 THEN <<>> ELSE Slice(text, first, last)

\* JSON.parse of a text made of "{", "}", whitespace, "p" (a well-formed list of
\* all the members the prompt asks for) and "x" (any other character): it
\* returns an object for "{}" and "{p}", whitespace allowed around the members,
\* and throws for every other text
JSONparse(text) ==
  LET inner == Trim(Slice(text, 2, Len(text) - 1))
  IN  IF Len(text) >= 2 /\ text[1] = "{" /\ text[Len(text)] = "}" /\ inner \in {<<>>, <<"p">>}
      THEN [ok |-> TRUE, value |-> [members |-> inner]]
      ELSE [ok |-> FALSE, value |-> [members |-> <<>>]]

\* get-market-prices: the reply without its markdown code fence; "@" stands for
\* the backquote
cleanedResponse(reply) ==
  LET Fence == <<"@", "@", "@">>
      StartsWith(text, prefix) ==
        Len(text) >= Len(prefix) /\ SubSeq(text, 1, Len(prefix)) = prefix
      EndsWith(text, suffix) ==
        Len(text) >= Len(suffix) /\ SubSeq(text, Len(text) - Len(suffix) + 1, Len(text)) = suffix
      a == Trim(reply)
      b == IF StartsWith(a, Fence \o <<"j", "s", "o", "n">>) THEN Slice(a, 8, Len(a))
           ELSE IF StartsWith(a, Fence) THEN Slice(a, 4, Len(a))
           ELSE a
      c == IF EndsWith(b, Fence) THEN Slice(b, 1, Len(b) - 3) ELSE b
  IN  Trim(c)

\* analyze-pest: the structured fallback
detectionFallback(aiResponse) ==
  [detected |-> FALSE, name |-> "Analysis Incomplete", confidence |-> 0, severity |-> "unknown",
   symptoms |-> <<>>, treatment |-> <<>>, prevention |-> <<>>, additionalInfo |-> aiResponse]

\* analyze-soil: the structured fallback
analysisFallback(aiResponse) ==
  [soilHealth |-> "unknown",
   fertilizer |-> [name |-> "NPK 20-20-20", npkRatio |-> "20-20-20", amount |-> "50 kg/acre",
                   applicationMethod |-> "Broadcast before sowing"],
   crops |-> <<[name |-> "General crops", suitability |-> "medium",
                reason |-> "Based on provided parameters"]>>,
   improvements |-> <<>>, advice |-> aiResponse, warnings |-> <<>>]

\* a handler that answers a reply it cannot parse with an error, as
\* get-market-prices does
replyResponseStrict(fn, reply) ==
  LET Extract(text) ==
        IF jsonMatch(text) = <<>> THEN [ok |-> FALSE, value |-> [members |-> <<>>]]
        ELSE JSONparse(jsonMatch(text))
  IN  IF fn = "weather-recommendations" THEN Response(200, JsonHeaders, [recommendations |-> reply])
      ELSE IF fn = "chat" THEN Response(200, JsonHeaders, [response |-> reply])
      ELSE IF Extract(reply).ok THEN Response(200, JsonHeaders, [detection |-> Extract(reply).value])
      ELSE ErrorResponse(500, "Failed to parse")

\* the handler after the gateway answered OK and its body was parsed; Extract is
\* the try block around the match and the parse: whether it ends without a
\* throw, and the object parsed; "none" is the text chat sends for an empty reply
replyResponse(fn, reply) ==
  LET Extract(text) ==
        IF jsonMatch(text) = <<>> THEN [ok |-> FALSE, value |-> [members |-> <<>>]]
        ELSE JSONparse(jsonMatch(text))
  IN  IF fn = "weather-recommendations" THEN Response(200, JsonHeaders, [recommendations |-> reply])
      ELSE IF fn = "chat"
      THEN Response(200, JsonHeaders,
             [response |-> IF reply = <<>> THEN <<"n", "o", "n", "e">> ELSE reply])
      ELSE IF fn = "analyze-pest"
      THEN Response(200, JsonHeaders,
             [detection |-> IF Extract(reply).ok THEN Extract(reply).value ELSE detectionFallback(reply)])
      ELSE IF fn = "analyze-soil"
      THEN Response(200, JsonHeaders,
             [analysis |-> IF Extract(reply).ok THEN Extract(reply).value ELSE analysisFallback(reply)])
      ELSE IF Extract(cleanedResponse(reply)).ok
      THEN Response(200, JsonHeaders, Extract(cleanedResponse(reply)).value)
      ELSE ErrorResponse(500, "Failed to parse market data")

\* a gateway error branch without the test for 402
gatewayErrorNo402(fn, up) ==
  IF fn # "weather-recommendations" /\ ~up.textOk THEN ErrorResponse(500, "body")
  ELSE IF up.status = 429 THEN ErrorResponse(429, "Rate limit exceeded. Please try again later.")
  ELSE IF ~up.textOk THEN ErrorResponse(500, "body")
  ELSE ErrorResponse(500, "AI gateway error")

\* the branch  if (!response.ok): weather-recommendations reads the body of the
\* gateway's answer after the tests for 429 and 402, the others before them
gatewayError(fn, up) ==
  IF fn # "weather-recommendations" /\ ~up.textOk THEN ErrorResponse(500, "body")
  ELSE IF up.status = 429 THEN ErrorResponse(429, "Rate limit exceeded. Please try again later.")
  ELSE IF up.status = 402
  THEN ErrorResponse(402, IF fn = "weather-recommendations"
                          THEN "Payment required. Please add credits."
                          ELSE "AI credits exhausted. Please add more credits.")
  ELSE IF ~up.textOk THEN ErrorResponse(500, "body")
  ELSE ErrorResponse(500, "AI gateway error")

\* the handler given to serve
serve(fn, r, key, up) ==
  IF r.method = "OPTIONS" THEN Response(200, corsHeaders, [none |-> TRUE])
  ELSE IF ~r.jsonOk THEN ErrorResponse(500, "request body")
  ELSE IF ~key THEN ErrorResponse(500, "LOVABLE_API_KEY is not configured")
  ELSE IF fn = "analyze-pest" /\ ~r.hasImage THEN ErrorResponse(500, "No image provided")
  ELSE IF up.thrown THEN ErrorResponse(500, "fetch")
  ELSE IF ~(up.status >= 200 /\ up.status <= 299) THEN gatewayError(fn, up)
  ELSE IF ~up.jsonOk THEN ErrorResponse(500, "response body")
  ELSE replyResponse(fn, up.reply)

\* ---- requests and gateways

\* replies of at most MaxReply characters, and longer ones inside a markdown
\* code fence or with text after the object
ReplyTexts ==
  UNION {[1..n -> {"{", "}", "p", "x", " "}] : n \in 0..MaxReply}
  \cup { <<"@", "@", "@", "j", "s", "o", "n", "{", "p", "}", "@", "@", "@">>,
         <<"@", "@", "@", "{", "p", "}", "@", "@", "@">>,
         <<"@", "@", "@", "j", "s", "o", "n", "{", "x", "}", "@", "@", "@">>,
         <<"x", "{", "p", "}", "x", "}">> }

Requests == [method : {"OPTIONS", "POST"}, jsonOk : BOOLEAN, hasImage : BOOLEAN]

Upstreams ==
     {Upstream(TRUE, 200, TRUE, TRUE, <<>>)}
  \cup {Upstream(FALSE, status, textOk, TRUE, <<>>) : status \in {400, 402, 429, 503}, textOk \in BOOLEAN}
  \cup {Upstream(FALSE, 200, TRUE, FALSE, <<>>)}
  \cup {Upstream(FALSE, 200, TRUE, TRUE, reply) : reply \in ReplyTexts}

\* the handler runs and returns its Response
serveHandler ==
  /\ edgePc = "received"
  /\ httpResponse' = serve(fnName, req, LOVABLE_API_KEY, upstream)
  /\ edgePc' = "responded"
  /\ UNCHANGED <<fnName, req, LOVABLE_API_KEY, upstream, notEdgeVars>>

\* an invocation arrives
EdgeInit ==
  /\ FormatterIdle /\ WizardStart /\ AnalyzeStart /\ ChatStart
  /\ fnName \in EdgeFunctions
  /\ req \in Requests
  /\ LOVABLE_API_KEY \in BOOLEAN
  /\ upstream \in Upstreams
  /\ edgePc = "received"
  /\ httpResponse = Response(0, {}, [none |-> TRUE])   \* no Response yet

\* the handler keeps no state between invocations: each behaviour is one invocation
EdgeSpec == EdgeInit /\ [][serveHandler]_vars

\* ---- failures of the gateway

\* a status that fetch reports as ok
IsOk(status) == status >= 200 /\ status <= 299

\* the handler got as far as calling the gateway and the call returned
GatewayAnswered ==
  /\ req.method = "POST" /\ req.jsonOk /\ LOVABLE_API_KEY
  /\ fnName = "analyze-pest" => req.hasImage
  /\ ~upstream.thrown

\* something was thrown before the gateway answered, or while its OK answer was read
ThrownOutsideErrorBranch ==
  /\ req.method = "POST"
  /\ \/ ~req.jsonOk
     \/ req.jsonOk /\ LOVABLE_API_KEY /\ (fnName = "analyze-pest" => req.hasImage)
          /\ (upstream.thrown \/ (IsOk(upstream.status) /\ ~upstream.jsonOk))

IsError(status) == httpResponse.status = status /\ DOMAIN httpResponse.body = {"error"}

DetectionFields ==
  {"detected", "name", "confidence", "severity", "symptoms", "treatment", "prevention", "additionalInfo"}

\* the fields of an analysis that SoilAnalyzer reads
AnalysisFields == {"soilHealth", "fertilizer", "crops", "improvements", "advice", "warnings"}

\* no part of the reply is a JSON object
NoParsableObject(reply) ==
  \A i \in 1..Len(reply) : \A j \in i..Len(reply) : ~JSONparse(SubSeq(reply, i, j)).ok

\* analyze-pest or analyze-soil got an OK answer from the gateway whose reply
\* holds no JSON object, and has responded
UnparsableReplyAnswered ==
  /\ edgePc = "responded"
  /\ fnName \in {"analyze-pest", "analyze-soil"}
  /\ GatewayAnswered /\ IsOk(upstream.status) /\ upstream.jsonOk
  /\ NoParsableObject(upstream.reply)

\* C27: when the model's reply holds no parsable JSON object, analyze-pest and
\* analyze-soil answer HTTP 200 with a complete structured fallback: for pest
\* detected false, confidence 0, severity "unknown", empty symptoms, treatment
\* and prevention, and the raw reply as additionalInfo; for soil soilHealth
\* "unknown" and the raw reply as advice; every field the client reads is
\* there and the body holds no error.
C27_ParseFailureFallsBack ==
  UnparsableReplyAnswered =>
    /\ httpResponse.status = 200
    /\ "error" \notin DOMAIN httpResponse.body
    /\ fnName = "analyze-pest" =>
         /\ DOMAIN httpResponse.body = {"detection"}
         /\ DetectionFields \subseteq DOMAIN httpResponse.body.detection
         /\ httpResponse.body.detection.detected = FALSE
         /\ httpResponse.body.detection.confidence = 0
         /\ httpResponse.body.detection.severity = "unknown"
         /\ httpResponse.body.detection.symptoms = <<>>
         /\ httpResponse.body.detection.treatment = <<>>
         /\ httpResponse.body.detection.prevention = <<>>
         /\ httpResponse.body.detection.additionalInfo = upstream.reply
    /\ fnName = "analyze-soil" =>
         /\ DOMAIN httpResponse.body = {"analysis"}
         /\ AnalysisFields \subseteq DOMAIN httpResponse.body.analysis
         /\ DOMAIN httpResponse.body.analysis.fertilizer = {"name", "npkRatio", "amount", "applicationMethod"}
         /\ httpResponse.body.analysis.soilHealth = "unknown"
         /\ httpResponse.body.analysis.advice = upstream.reply
         /\ \A k \in 1..Len(httpResponse.body.analysis.crops) :
              DOMAIN httpResponse.body.analysis.crops[k] = {"name", "suitability", "reason"}

C27_Witness ==
  /\ UnparsableReplyAnswered
  /\ fnName = "analyze-soil"
  /\ upstream.reply = <<"{", "x", "}">>
  /\ httpResponse.body.analysis.advice = <<"{", "x", "}">>

====
